---- MODULE Spec2Model ----
(***************************************************************************)
(* Model of src/train_random_forest/run.py: the training run go(), the     *)
(* preprocessing pipeline built by get_inference_pipeline(), the date      *)
(* feature delta_date_feature() and the importance reduction of            *)
(* plot_feature_importance().                                              *)
(*                                                                         *)
(* Three specifications share the variables:                               *)
(*   SpecDate   - delta_date_feature behind its constant imputer, applied  *)
(*                to an earlier and a later 2d array of dates;             *)
(*   SpecReduce - plot_feature_importance applied to a pipe whose forest   *)
(*                carries a raw importance vector;                         *)
(*   Spec       - the run go(), statement by statement.                    *)
(***************************************************************************)
EXTENDS Integers, Sequences, FiniteSets, TLC

VARIABLES
    dd_phase,      \* SpecDate: "earlier" | "later" | "returned"
    dd_prev,       \* SpecDate: the array passed to the earlier call
    dd_in,         \* SpecDate: the array passed to the call being made
    dd_out,        \* SpecDate: what that call returned
    pf_phase,      \* SpecReduce: "called" | "returned"
    pf_pipe,       \* SpecReduce: the pipe passed to plot_feature_importance
    pf_feat_imp,   \* SpecReduce: the reduced vector that was plotted
    pf_raised,     \* SpecReduce: the exception the call raised, or "none"
    pc,            \* Spec: the statement of go() that runs next
    args,          \* Spec: the command line arguments
    csv,           \* Spec: the rows of the trainval artifact
    rf_config,     \* Spec: the mapping handed to RandomForestRegressor
    X,             \* Spec: the features, "price" popped
    y,             \* Spec: the response
    X_train,       \* Spec: the training fold
    X_val,         \* Spec: the validation fold
    sk_pipe,       \* Spec: the pipeline (preprocessor + random forest)
    fit_log,       \* Spec: the data of every fit of the pipeline, in order
    Xt,            \* Spec: the matrices the preprocessor handed to the forest
    error,         \* Spec: the exception that ended the run, or "none"
    wandb,         \* Spec: what the W&B run has received
    random_forest_dir,  \* Spec: the model saved on disk, if any
    feature_importances_,  \* Spec: the forest's raw importances, once read
    fig_feat_imp   \* Spec: the bar heights of the importance figure

dateVars == <<dd_phase, dd_prev, dd_in, dd_out>>
reduceVars == <<pf_phase, pf_pipe, pf_feat_imp, pf_raised>>
dataVars == <<csv, X, y, X_train, X_val>>
modelVars == <<sk_pipe, fit_log, Xt>>
outVars == <<wandb, random_forest_dir, feature_importances_, fig_feat_imp>>
goVars == <<pc, args, rf_config, error, dataVars, modelVars, outVars>>

vars == <<dateVars, reduceVars, goVars>>

\* A cell of a dataframe column that may hold NaN: <<>> when missing, <<v>>
\* when it holds v.
NaN == <<>>
Some(v) == <<v>>

(***************************************************************************)
(* The values of the variables a specification does not use.               *)
(***************************************************************************)
NoArgs ==
    [rf_config |-> <<>>, random_seed |-> 0, stratify_by |-> "none",
     val_size |-> <<0, 1>>, max_tfidf_features |-> 0]

NoPipe ==
    [built |-> FALSE, fitted |-> FALSE, params |-> <<>>,
     preprocessor |-> [ordinal_categories |-> <<>>, most_frequent |-> <<>>,
                       onehot_categories |-> <<>>, vocabulary |-> <<>>],
     n_features_in_ |-> 0]

NoRun == [config |-> {}, artifacts |-> {}, summary |-> {}, log |-> {}]

DateIdle == dd_phase = "idle" /\ dd_prev = <<>> /\ dd_in = <<>> /\ dd_out = <<>>

ReduceIdle ==
    pf_phase = "idle" /\ pf_pipe = <<>> /\ pf_feat_imp = <<>> /\ pf_raised = "none"

GoDefaults ==
    /\ rf_config = <<>> /\ error = "none"
    /\ X = <<>> /\ y = <<>> /\ X_train = <<>> /\ X_val = <<>>
    /\ sk_pipe = NoPipe /\ fit_log = <<>> /\ Xt = <<>>
    /\ wandb = NoRun /\ random_forest_dir = FALSE
    /\ feature_importances_ = <<>> /\ fig_feat_imp = <<>>

GoIdle == pc = "idle" /\ args = NoArgs /\ csv = <<>> /\ GoDefaults

(***************************************************************************)
(* Small helpers over sequences.                                           *)
(***************************************************************************)
RECURSIVE SumSeq(_)
SumSeq(s) == IF s = <<>> THEN 0 ELSE Head(s) + SumSeq(Tail(s))

RECURSIVE MaxSeq(_)
MaxSeq(s) == IF Len(s) = 1 THEN s[1]
             ELSE LET m == MaxSeq(Tail(s)) IN IF s[1] >= m THEN s[1] ELSE m

(***************************************************************************)
(* Dates.  A date string "YYYY-MM-DD" is the triple <<YYYY, MM, DD>>;      *)
(* pd.to_datetime turns it into a timestamp, here the day number of the    *)
(* proleptic Gregorian calendar.                                           *)
(***************************************************************************)
IsLeap(yr) == (yr % 4 = 0 /\ yr % 100 # 0) \/ yr % 400 = 0

DaysBeforeMonth(yr, m) ==
    LET cum == <<0, 31, 59, 90, 120, 151, 181, 212, 243, 273, 304, 334>>
    IN  cum[m] + (IF m > 2 /\ IsLeap(yr) THEN 1 ELSE 0)

to_datetime(s) ==
    LET py == s[1] - 1
    IN  365 * py + (py \div 4) - (py \div 100) + (py \div 400)
          + DaysBeforeMonth(s[1], s[2]) + s[3]

\* SimpleImputer(strategy='constant', fill_value='2010-01-01')
DateFillValue == <<2010, 1, 1>>

\* The date strings the input arrays are drawn from.
DateStrings == { <<2019, 7, 8>>, <<2020, 3, 1>> }

\* The columns of the 2d array handed to the date pipeline.
DateColumns == {"last_review", "first_review"}

MaxDateRows == 2

\* A 2d array of dates: rows 1..n, each a record over the columns.
DateCells == {NaN} \cup {Some(d) : d \in DateStrings}
DateArrays(n) == [1..n -> [DateColumns -> DateCells]]

\* SimpleImputer(strategy='constant', fill_value=...) on every cell.
ImputeConstant(arr, fill) ==
    [r \in DOMAIN arr |->
        [c \in DOMAIN arr[r] |-> IF arr[r][c] = NaN THEN fill ELSE arr[r][c][1]]]

\* The same, with d.max() taken over the whole frame instead of per column.
delta_date_feature_global_max(dates) ==
    LET date_sanitized ==
            [r \in DOMAIN dates |->
                [c \in DOMAIN dates[r] |-> to_datetime(dates[r][c])]]
        all == {date_sanitized[r][c] : r \in DOMAIN dates, c \in DOMAIN dates[1]}
        mx  == CHOOSE m \in all : \A x \in all : x <= m
    IN  [r \in DOMAIN dates |->
            [c \in DOMAIN dates[r] |-> mx - date_sanitized[r][c]]]

\* delta_date_feature: per column, d.max() - d in days.
delta_date_feature(dates) ==
    LET date_sanitized ==
            [r \in DOMAIN dates |->
                [c \in DOMAIN dates[r] |-> to_datetime(dates[r][c])]]
        colmax(c) == MaxSeq([r \in DOMAIN dates |-> date_sanitized[r][c]])
    IN  [r \in DOMAIN dates |->
            [c \in DOMAIN dates[r] |-> colmax(c) - date_sanitized[r][c]]]

\* date_imputer = make_pipeline(SimpleImputer(...), FunctionTransformer(...))
date_imputer(arr) == delta_date_feature(ImputeConstant(arr, DateFillValue))

(***************************************************************************)
(* SpecDate: the fitted date pipeline is applied twice, as in fit and a    *)
(* later transform-only call.  FunctionTransformer and the constant        *)
(* imputer keep nothing between calls.                                     *)
(***************************************************************************)
InitDate ==
    /\ dd_phase = "earlier"
    /\ dd_prev = <<>>
    /\ \E c \in DateColumns, d \in DateCells :
          dd_in = <<[x \in DateColumns |-> IF x = c THEN d ELSE NaN]>>
    /\ dd_out = <<>>
    /\ ReduceIdle
    /\ GoIdle

\* The earlier call returns; the caller prepares the array of the later call.
DateEarlierCall ==
    /\ dd_phase = "earlier"
    /\ \E n \in 1..MaxDateRows : \E arr \in DateArrays(n) :
          /\ dd_prev' = dd_in
          /\ dd_in' = arr
    /\ dd_out' = date_imputer(dd_in)
    /\ dd_phase' = "later"
    /\ UNCHANGED <<reduceVars, goVars>>

\* The later call on the new array.
DateLaterCall ==
    /\ dd_phase = "later"
    /\ dd_out' = date_imputer(dd_in)
    /\ dd_phase' = "returned"
    /\ UNCHANGED <<dd_prev, dd_in, reduceVars, goVars>>

NextDate == DateEarlierCall \/ DateLaterCall

SpecDate == InitDate /\ [][NextDate]_vars

(***************************************************************************)
(* Importance reduction.                                                   *)
(***************************************************************************)
ordinal_categorical == <<"room_type">>
non_ordinal_categorical == <<"neighbourhood_group">>
zero_imputed == <<"minimum_nights", "number_of_reviews", "reviews_per_month",
                  "calculated_host_listings_count", "availability_365",
                  "longitude", "latitude">>

processed_features ==
    ordinal_categorical \o non_ordinal_categorical \o zero_imputed
        \o <<"last_review", "name">>

\* Python slices a[:m] and a[m:] for 0 <= m.
SliceTo(a, m) == SubSeq(a, 1, IF m < Len(a) THEN m ELSE Len(a))
SliceFrom(a, m) == SubSeq(a, m + 1, Len(a))

\* The NLP sum taken one entry too late: feature_importances_[len(feat_names):].
plot_feature_importance_late_split(pipe, feat_names) ==
    LET raw == pipe.feature_importances_
    IN  Append(SliceTo(raw, Len(feat_names) - 1),
               SumSeq(SliceFrom(raw, Len(feat_names))))

\* The bar heights plot_feature_importance draws, bar i labelled feat_names[i].
plot_feature_importance(pipe, feat_names) ==
    LET raw == pipe.feature_importances_
        feat_imp == SliceTo(raw, Len(feat_names) - 1)
        nlp_importance == SumSeq(SliceFrom(raw, Len(feat_names) - 1))
    IN  Append(feat_imp, nlp_importance)

MaxOneHotWidth == 2
MaxTextWidth == 2
ImportanceUnits == 2

\* feature_importances_ is normalised: the vectors that spread units units of
\* importance over n output columns.
Importances(n, units) ==
    { [i \in 1..n |-> Cardinality({u \in 1..units : f[u] = i})] :
        f \in [1..units -> 1..n] }

\* Total output width of a fitted plan with k one-hot and t text columns.
PlanWidth(k, t) ==
    Len(ordinal_categorical) + k + Len(zero_imputed) + 1 + t

InitReduce ==
    /\ pf_phase = "called"
    /\ \E k \in 1..MaxOneHotWidth, t \in 1..MaxTextWidth :
       \E n \in PlanWidth(1, 1)..PlanWidth(MaxOneHotWidth, MaxTextWidth) :
       \E raw \in Importances(n, ImportanceUnits) :
          pf_pipe = [k |-> k, t |-> t, feature_importances_ |-> raw]
    /\ pf_feat_imp = <<>>
    /\ pf_raised = "none"
    /\ DateIdle
    /\ GoIdle

PlotCall ==
    /\ pf_phase = "called"
    /\ pf_feat_imp' = plot_feature_importance(pf_pipe, processed_features)
    /\ pf_phase' = "returned"
    /\ UNCHANGED <<pf_pipe, pf_raised, dateVars, goVars>>

NextReduce == PlotCall

SpecReduce == InitReduce /\ [][NextReduce]_vars

(***************************************************************************)
(* The dataset.  The rows of the trainval CSV are drawn from RowPool; a    *)
(* column that may hold NaN holds NaN or Some(v).  "id" is a column that   *)
(* no transformer of the preprocessor names.                               *)
(***************************************************************************)
RowPool == <<
    [id |-> 1, price |-> 100, room_type |-> "Entire home/apt",
     neighbourhood_group |-> Some("Bronx"),
     minimum_nights |-> Some(1), number_of_reviews |-> Some(9),
     reviews_per_month |-> Some(2), calculated_host_listings_count |-> Some(1),
     availability_365 |-> Some(365), longitude |-> Some(-73), latitude |-> Some(40),
     last_review |-> Some(<<2019, 7, 8>>), name |-> Some(<<"Cozy", "loft">>)],
    [id |-> 2, price |-> 60, room_type |-> "Private room",
     neighbourhood_group |-> Some("Queens"),
     minimum_nights |-> Some(3), number_of_reviews |-> Some(0),
     reviews_per_month |-> NaN, calculated_host_listings_count |-> Some(2),
     availability_365 |-> Some(0), longitude |-> Some(-74), latitude |-> Some(41),
     last_review |-> NaN, name |-> NaN],
    [id |-> 3, price |-> 150, room_type |-> "Entire home/apt",
     neighbourhood_group |-> NaN,
     minimum_nights |-> NaN, number_of_reviews |-> Some(4),
     reviews_per_month |-> Some(1), calculated_host_listings_count |-> Some(1),
     availability_365 |-> Some(90), longitude |-> NaN, latitude |-> Some(40),
     last_review |-> Some(<<2020, 3, 1>>),
     name |-> Some(<<"the", "loft", "in", "Bronx">>)],
    [id |-> 4, price |-> 45, room_type |-> "Private room",
     neighbourhood_group |-> Some("Bronx"),
     minimum_nights |-> Some(2), number_of_reviews |-> Some(1),
     reviews_per_month |-> Some(1), calculated_host_listings_count |-> NaN,
     availability_365 |-> NaN, longitude |-> Some(-73), latitude |-> NaN,
     last_review |-> Some(<<2019, 7, 8>>), name |-> Some(<<"a", "sunny", "room">>)]
>>

NumRows == 4

\* train_test_split shuffles the rows, so the CSVs are taken with their rows
\* in pool order.
Datasets ==
    { [i \in 1..NumRows |-> RowPool[f[i]]] :
        f \in { g \in [1..NumRows -> 1..Len(RowPool)] :
                  \A i \in 1..(NumRows - 1) : g[i] <= g[i + 1] } }

\* The columns of X once "price" has been popped.
XColumns == {"id", "room_type", "neighbourhood_group", "last_review", "name"}
               \cup {zero_imputed[i] : i \in 1..Len(zero_imputed)}

\* Python's order of the strings that occur (upper case before lower case).
StringOrder == <<"Bronx", "Entire home/apt", "Private room", "Queens",
                 "bronx", "cozy", "loft", "room", "sunny">>

\* sorted(S), as np.unique and the vectorizer's vocabulary order it.
Sorted(S) == LET In(x) == x \in S IN SelectSeq(StringOrder, In)

IndexOf(seq, x) == CHOOSE i \in 1..Len(seq) : seq[i] = x

SeqToSet(seq) == {seq[i] : i \in 1..Len(seq)}

\* The column col of rows, as a 2d array of one column.
Column(rows, col) == [r \in DOMAIN rows |-> [c \in {col} |-> rows[r][c]]]

(***************************************************************************)
(* train_test_split(X, y, test_size=val_size, stratify=X[stratify_by]).    *)
(* val_size is the fraction vs[1] / vs[2].                                 *)
(***************************************************************************)
NTest(n, vs) == (vs[1] * n + vs[2] - 1) \div vs[2]

Classes(rows, col) == {rows[i][col] : i \in 1..Len(rows)}

ClassCount(rows, col, c) == Cardinality({i \in 1..Len(rows) : rows[i][col] = c})

\* StratifiedShuffleSplit refuses the split.
StratifyRefused(rows, col, vs) ==
    LET n == Len(rows)
        n_test == NTest(n, vs)
        n_train == n - n_test
        cls == Classes(rows, col)
    IN  \/ n_train = 0
        \/ \E c \in cls : ClassCount(rows, col, c) < 2
        \/ n_train < Cardinality(cls)
        \/ n_test < Cardinality(cls)

\* _approximate_mode(class_counts, n_train): every class gets the floor of
\* its share, the rows left over go to the largest remainders, ties at random.
TrainAllocations(rows, col, vs) ==
    LET n == Len(rows)
        n_train == n - NTest(n, vs)
        cls == Classes(rows, col)
        share(c) == ClassCount(rows, col, c) * n_train
        total(a) == LET RECURSIVE Sum(_)
                        Sum(S) == IF S = {} THEN 0
                                  ELSE LET c == CHOOSE x \in S : TRUE
                                       IN  a[c] + Sum(S \ {c})
                    IN  Sum(cls)
    IN  { a \in [cls -> 0..n] :
            /\ \A c \in cls : a[c] \in {share(c) \div n, share(c) \div n + 1}
            /\ total(a) = n_train
            /\ \A c, d \in cls :
                  (a[c] = share(c) \div n + 1 /\ a[d] = share(d) \div n)
                      => share(c) % n >= share(d) % n }

\* The sets of row indices a stratified split can send to validation.
ValIndexSets(rows, col, vs) ==
    { S \in SUBSET (1..Len(rows)) :
        \E a \in TrainAllocations(rows, col, vs) :
            \A c \in Classes(rows, col) :
                Cardinality({i \in S : rows[i][col] = c})
                    = ClassCount(rows, col, c) - a[c] }

\* rows[i] for the i in S (or not in S), in order.
RECURSIVE Take(_, _, _)
Take(rows, S, i) ==
    IF i > Len(rows) THEN <<>>
    ELSE (IF i \in S THEN <<rows[i]>> ELSE <<>>) \o Take(rows, S, i + 1)

(***************************************************************************)
(* The transformers of the preprocessor (get_inference_pipeline).          *)
(***************************************************************************)
\* SimpleImputer(strategy="most_frequent"): the most frequent value that is
\* present, the smallest one among ties; <<>> when the column holds none.
MostFrequent(rows, col) ==
    LET present == {rows[i][col][1] : i \in {j \in 1..Len(rows) : rows[j][col] # NaN}}
        count(v) == Cardinality({i \in 1..Len(rows) : rows[i][col] = Some(v)})
        best == {v \in present : \A w \in present : count(w) <= count(v)}
    IN  IF present = {} THEN NaN ELSE Some(Sorted(best)[1])

ImputeCell(cell, fill) == IF cell = NaN THEN fill ELSE cell[1]

\* TfidfVectorizer(stop_words='english'): lower-case, keep the tokens of two
\* or more characters, drop the stop words.  A name is the sequence of its
\* words; a cell of the text columns carries the term's count in the row
\* (the idf weight and the row normalisation scale it, they move no column).
LowerCase(w) == CASE w = "Cozy" -> "cozy" [] w = "Bronx" -> "bronx" [] OTHER -> w

EnglishStopWords == {"the", "in", "a", "and", "of", "to"}

Tokens(words) ==
    LET lowered == [i \in 1..Len(words) |-> LowerCase(words[i])]
        Keep(w) == Len(w) >= 2 /\ w \notin EnglishStopWords
    IN  SelectSeq(lowered, Keep)

\* The documents of the name pipeline: NaN imputed by "", then tokenised.
Documents(rows) ==
    [r \in 1..Len(rows) |-> Tokens(ImputeCell(rows[r].name, <<>>))]

TermCount(doc, term) == Cardinality({i \in 1..Len(doc) : doc[i] = term})

TermFrequency(docs, term) ==
    SumSeq([r \in 1..Len(docs) |-> TermCount(docs[r], term)])

\* The vocabularies max_features allows: every term when they are few enough,
\* else max_features terms of highest total frequency (ties in argsort order).
Vocabularies(rows, max_features) ==
    LET docs == Documents(rows)
        terms == UNION {SeqToSet(docs[r]) : r \in 1..Len(docs)}
    IN  IF Cardinality(terms) <= max_features THEN {terms}
        ELSE { V \in SUBSET terms :
                 /\ Cardinality(V) = max_features
                 /\ \A a \in V, b \in terms \ V :
                       TermFrequency(docs, a) >= TermFrequency(docs, b) }

\* preprocessor.fit raises: the one-hot encoder is left without a column when
\* neighbourhood_group holds no value, the vectorizer without a vocabulary
\* when no name holds a term.
FitRaises(rows, max_features) ==
    \/ MostFrequent(rows, "neighbourhood_group") = NaN
    \/ Vocabularies(rows, max_features) = {{}}

\* The fitted states preprocessor.fit(rows) can end in.
FitPreprocessor(rows, max_features) ==
    LET mf == MostFrequent(rows, "neighbourhood_group")
    IN  { [ordinal_categories |->
               Sorted({rows[r].room_type : r \in 1..Len(rows)}),
           most_frequent |-> mf,
           onehot_categories |->
               Sorted({ImputeCell(rows[r].neighbourhood_group, mf[1]) :
                          r \in 1..Len(rows)}),
           vocabulary |-> Sorted(V)] : V \in Vocabularies(rows, max_features) }

\* OrdinalEncoder() and OneHotEncoder() keep handle_unknown='error'.
TransformRaises(fitted, rows) ==
    \E r \in 1..Len(rows) :
        \/ rows[r].room_type \notin SeqToSet(fitted.ordinal_categories)
        \/ ImputeCell(rows[r].neighbourhood_group, fitted.most_frequent[1])
              \notin SeqToSet(fitted.onehot_categories)

Cell(col, val) == [col |-> col, val |-> val]

\* remainder="passthrough": the columns no transformer names are appended.
Remainder_passthrough(row) == <<Cell("id", row.id)>>

\* remainder="drop"
Remainder(row) == <<>>

\* preprocessor.transform(rows): per row, the outputs of the five
\* transformers side by side, every cell tagged with its source column.
Transform(fitted, rows) ==
    LET dates == date_imputer(Column(rows, "last_review"))
        docs == Documents(rows)
        ordinal_cat(r) ==
            <<Cell("room_type",
                   IndexOf(fitted.ordinal_categories, rows[r].room_type) - 1)>>
        non_ordinal_cat(r) ==
            LET v == ImputeCell(rows[r].neighbourhood_group, fitted.most_frequent[1])
            IN  [j \in 1..Len(fitted.onehot_categories) |->
                    Cell("neighbourhood_group",
                         IF fitted.onehot_categories[j] = v THEN 1 ELSE 0)]
        impute_zero(r) ==
            [j \in 1..Len(zero_imputed) |->
                Cell(zero_imputed[j], ImputeCell(rows[r][zero_imputed[j]], 0))]
        transform_date(r) == <<Cell("last_review", dates[r]["last_review"])>>
        transform_name(r) ==
            [j \in 1..Len(fitted.vocabulary) |->
                Cell("name", TermCount(docs[r], fitted.vocabulary[j]))]
    IN  [r \in 1..Len(rows) |->
            ordinal_cat(r) \o non_ordinal_cat(r) \o impute_zero(r)
                \o transform_date(r) \o transform_name(r) \o Remainder(rows[r])]

\* RandomForestRegressor.__init__'s keyword parameters.
RecognizedParams ==
    {"n_estimators", "criterion", "max_depth", "min_samples_split",
     "min_samples_leaf", "min_weight_fraction_leaf", "max_features",
     "max_leaf_nodes", "min_impurity_decrease", "bootstrap", "oob_score",
     "n_jobs", "random_state", "verbose", "warm_start", "ccp_alpha",
     "max_samples"}

(***************************************************************************)
(* Spec: the run go(args).                                                 *)
(***************************************************************************)
MaxTfidfFeatures == 2

\* The contents of the file --rf_config names.
RfConfigFiles ==
    { <<>>,
      [n_estimators |-> 100],
      [max_depth |-> 15, random_state |-> 7],
      [n_estimators |-> 100, max_dept |-> 15] }

ArgSets ==
    [rf_config : RfConfigFiles,
     random_seed : {42},
     stratify_by : {"none", "room_type", "neighbourhood_group"},
     val_size : {<<1, 2>>, <<1, 4>>},
     max_tfidf_features : 1..MaxTfidfFeatures]

Init ==
    /\ pc = "start"
    /\ args \in ArgSets
    /\ csv \in Datasets
    /\ GoDefaults
    /\ DateIdle
    /\ ReduceIdle

\* The run ends with exception e.
Raise(e) == pc' = "failed" /\ error' = e

\* Lines 44-53: start the W&B run, load rf_config, inject the seed.
LoadConfig ==
    /\ pc = "start"
    /\ wandb' = [wandb EXCEPT !.config = DOMAIN args.rf_config]
    /\ rf_config' =
          [k \in DOMAIN args.rf_config \cup {"random_state"} |->
              IF k = "random_state" THEN args.random_seed ELSE args.rf_config[k]]
    /\ pc' = "read"
    /\ UNCHANGED <<args, error, dataVars, modelVars,
                   random_forest_dir, feature_importances_, fig_feat_imp>>
    /\ UNCHANGED <<dateVars, reduceVars>>

\* Lines 56-66: read the artifact, pop the response.
ReadData ==
    /\ pc = "read"
    /\ X' = [r \in 1..Len(csv) |-> [c \in XColumns |-> csv[r][c]]]
    /\ y' = [r \in 1..Len(csv) |-> csv[r].price]
    /\ pc' = "split"
    /\ UNCHANGED <<args, rf_config, error, csv, X_train, X_val, modelVars, outVars>>
    /\ UNCHANGED <<dateVars, reduceVars>>

\* Lines 71-73: X[args.stratify_by], then the stratified split.
Split ==
    /\ pc = "split"
    /\ IF args.stratify_by \notin XColumns
       THEN Raise("KeyError") /\ UNCHANGED <<X_train, X_val>>
       ELSE IF StratifyRefused(X, args.stratify_by, args.val_size)
       THEN Raise("ValueError") /\ UNCHANGED <<X_train, X_val>>
       ELSE \E S \in ValIndexSets(X, args.stratify_by, args.val_size) :
               /\ X_train' = Take(X, (1..Len(X)) \ S, 1)
               /\ X_val' = Take(X, S, 1)
               /\ pc' = "build"
               /\ UNCHANGED error
    /\ UNCHANGED <<args, rf_config, csv, X, y, modelVars, outVars>>
    /\ UNCHANGED <<dateVars, reduceVars>>

\* RandomForestRegressor(**params) that swallows the keywords it does not know.
RandomForestRegressor_lenient(params) ==
    [raises |-> "none",
     params |-> [k \in DOMAIN params \cap RecognizedParams |-> params[k]]]

\* RandomForestRegressor(**params): an unexpected keyword is a TypeError.
RandomForestRegressor(params) ==
    IF DOMAIN params \subseteq RecognizedParams
    THEN [raises |-> "none", params |-> params]
    ELSE [raises |-> "TypeError", params |-> <<>>]

\* Line 78: get_inference_pipeline(rf_config, max_tfidf_features).
GetInferencePipeline ==
    /\ pc = "build"
    /\ LET random_forest == RandomForestRegressor(rf_config)
       IN  IF random_forest.raises # "none"
           THEN Raise(random_forest.raises) /\ UNCHANGED sk_pipe
           ELSE /\ sk_pipe' = [NoPipe EXCEPT !.built = TRUE,
                                             !.params = random_forest.params]
                /\ pc' = "fit"
                /\ UNCHANGED error
    /\ UNCHANGED <<args, rf_config, dataVars, fit_log, Xt, outVars>>
    /\ UNCHANGED <<dateVars, reduceVars>>

\* Line 83: sk_pipe.fit(X_train, y_train).
Fit ==
    /\ pc = "fit"
    /\ IF FitRaises(X_train, args.max_tfidf_features)
       THEN Raise("ValueError") /\ UNCHANGED modelVars
       ELSE \E f \in FitPreprocessor(X_train, args.max_tfidf_features) :
               LET Xt_train == Transform(f, X_train)
               IN  /\ sk_pipe' = [sk_pipe EXCEPT !.fitted = TRUE,
                                                 !.preprocessor = f,
                                                 !.n_features_in_ = Len(Xt_train[1])]
                   /\ fit_log' = Append(fit_log, X_train)
                   /\ Xt' = Append(Xt, Xt_train)
                   /\ pc' = "score"
                   /\ UNCHANGED error
    /\ UNCHANGED <<args, rf_config, dataVars, outVars>>
    /\ UNCHANGED <<dateVars, reduceVars>>

\* The pipeline applied to rows by score or predict: transform, then the
\* forest, which checks the width it was fitted on.
Apply(next) ==
    IF TransformRaises(sk_pipe.preprocessor, X_val)
    THEN Raise("ValueError") /\ UNCHANGED Xt
    ELSE LET Xt_val == Transform(sk_pipe.preprocessor, X_val)
         IN  IF Len(Xt_val[1]) # sk_pipe.n_features_in_
             THEN Raise("ValueError") /\ UNCHANGED Xt
             ELSE Xt' = Append(Xt, Xt_val) /\ pc' = next /\ UNCHANGED error

\* sk_pipe.score that fits the pipeline again on what it is given.
ScoreRefits ==
    /\ pc = "score"
    /\ IF FitRaises(X_val, args.max_tfidf_features)
       THEN Raise("ValueError") /\ UNCHANGED modelVars
       ELSE \E f \in FitPreprocessor(X_val, args.max_tfidf_features) :
               LET Xt_val == Transform(f, X_val)
               IN  /\ sk_pipe' = [sk_pipe EXCEPT !.preprocessor = f,
                                                 !.n_features_in_ = Len(Xt_val[1])]
                   /\ fit_log' = Append(fit_log, X_val)
                   /\ Xt' = Append(Xt, Xt_val)
                   /\ pc' = "predict"
                   /\ UNCHANGED error
    /\ UNCHANGED <<args, rf_config, dataVars, outVars>>
    /\ UNCHANGED <<dateVars, reduceVars>>

\* Line 87: r_squared = sk_pipe.score(X_val, y_val).
Score ==
    /\ pc = "score"
    /\ Apply("predict")
    /\ UNCHANGED <<args, rf_config, dataVars, sk_pipe, fit_log, outVars>>
    /\ UNCHANGED <<dateVars, reduceVars>>

\* Lines 89-90: y_pred = sk_pipe.predict(X_val), then the MAE.
Predict ==
    /\ pc = "predict"
    /\ Apply("save")
    /\ UNCHANGED <<args, rf_config, dataVars, sk_pipe, fit_log, outVars>>
    /\ UNCHANGED <<dateVars, reduceVars>>

\* Lines 98-107: mlflow.sklearn.save_model(sk_pipe, "random_forest_dir", ...).
SaveModel ==
    /\ pc = "save"
    /\ random_forest_dir' = TRUE
    /\ pc' = "log_artifact"
    /\ UNCHANGED <<args, rf_config, error, dataVars, modelVars,
                   wandb, feature_importances_, fig_feat_imp>>
    /\ UNCHANGED <<dateVars, reduceVars>>

\* mlflow.sklearn.save_model raises.
SaveModelFails ==
    /\ pc = "save"
    /\ Raise("ExternalError")
    /\ UNCHANGED <<args, rf_config, dataVars, modelVars, outVars>>
    /\ UNCHANGED <<dateVars, reduceVars>>

\* Lines 109-117: run.log_artifact(artifact).
LogArtifact ==
    /\ pc = "log_artifact"
    /\ wandb' = [wandb EXCEPT !.artifacts = {"model_export"}]
    /\ pc' = "plot"
    /\ UNCHANGED <<args, rf_config, error, dataVars, modelVars,
                   random_forest_dir, feature_importances_, fig_feat_imp>>
    /\ UNCHANGED <<dateVars, reduceVars>>

\* run.log_artifact raises.
LogArtifactFails ==
    /\ pc = "log_artifact"
    /\ Raise("ExternalError")
    /\ UNCHANGED <<args, rf_config, dataVars, modelVars, outVars>>
    /\ UNCHANGED <<dateVars, reduceVars>>

\* Line 120: fig_feat_imp = plot_feature_importance(sk_pipe, processed_features).
\* The forest's importance is taken to lie on one column of the matrix.
PlotFeatureImportance ==
    /\ pc = "plot"
    /\ \E raw \in Importances(sk_pipe.n_features_in_, 1) :
          /\ feature_importances_' = raw
          /\ fig_feat_imp' =
                plot_feature_importance([feature_importances_ |-> raw],
                                        processed_features)
    /\ pc' = "summary"
    /\ UNCHANGED <<args, rf_config, error, dataVars, modelVars,
                   wandb, random_forest_dir>>
    /\ UNCHANGED <<dateVars, reduceVars>>

\* Lines 122-123: run.summary['r2'], run.summary['mae'].
Summary ==
    /\ pc = "summary"
    /\ wandb' = [wandb EXCEPT !.summary = {"r2", "mae"}]
    /\ pc' = "log_figure"
    /\ UNCHANGED <<args, rf_config, error, dataVars, modelVars,
                   random_forest_dir, feature_importances_, fig_feat_imp>>
    /\ UNCHANGED <<dateVars, reduceVars>>

\* Lines 126-130: run.log({"feature_importance": wandb.Image(fig_feat_imp)}).
LogFigure ==
    /\ pc = "log_figure"
    /\ wandb' = [wandb EXCEPT !.log = {"feature_importance"}]
    /\ pc' = "done"
    /\ UNCHANGED <<args, rf_config, error, dataVars, modelVars,
                   random_forest_dir, feature_importances_, fig_feat_imp>>
    /\ UNCHANGED <<dateVars, reduceVars>>

\* wandb.Image or run.log raises.
LogFigureFails ==
    /\ pc = "log_figure"
    /\ Raise("ExternalError")
    /\ UNCHANGED <<args, rf_config, dataVars, modelVars, outVars>>
    /\ UNCHANGED <<dateVars, reduceVars>>

Next ==
    \/ LoadConfig
    \/ ReadData
    \/ Split
    \/ GetInferencePipeline
    \/ Fit
    \/ Score
    \/ Predict
    \/ SaveModel
    \/ SaveModelFails
    \/ LogArtifact
    \/ LogArtifactFails
    \/ PlotFeatureImportance
    \/ Summary
    \/ LogFigure
    \/ LogFigureFails

Spec == Init /\ [][Next]_vars

(***************************************************************************)
(* Properties.                                                             *)
(***************************************************************************)
\* The widths of the eleven feature groups of a plan with k one-hot and t
\* text columns, in the order of processed_features.
GroupWidths(k, t) == <<1, k>> \o [i \in 1..Len(zero_imputed) |-> 1] \o <<1, t>>

\* The sum of the raw entries the g-th group's transform produced.
GroupSum(raw, widths, g) ==
    LET start == SumSeq(SubSeq(widths, 1, g - 1))
    IN  SumSeq(SubSeq(raw, start + 1, start + widths[g]))

PlanMatches(pipe) == Len(pipe.feature_importances_) = PlanWidth(pipe.k, pipe.t)

\* C1: for a pipe whose raw importance vector has the plan's width, the bar
\* of every feature group is the sum of the raw entries of that group's own
\* columns, for every one-hot width k >= 1 and text width t >= 1.
C1_EachGroupGetsItsOwnEntries ==
    (pf_phase = "returned" /\ PlanMatches(pf_pipe)) =>
        \A g \in 1..Len(processed_features) :
            pf_feat_imp[g] =
                GroupSum(pf_pipe.feature_importances_,
                         GroupWidths(pf_pipe.k, pf_pipe.t), g)

\* C2: the reduced vector sums to what the raw importance vector sums to.
C2_Conservation ==
    pf_phase = "returned" =>
        SumSeq(pf_feat_imp) = SumSeq(pf_pipe.feature_importances_)

\* A call returned for a vector with importance on both sides of the split
\* at len(feat_names) - 1.
C2_Witness ==
    /\ pf_phase = "returned"
    /\ PlanMatches(pf_pipe)
    /\ pf_pipe.feature_importances_[Len(processed_features) - 1] > 0
    /\ pf_pipe.feature_importances_[Len(processed_features)] > 0

\* C3: when the raw importance vector's length differs from the sum of the
\* group widths, the reduction raises DimensionMismatchError and produces no
\* reduced vector.
C3_MismatchRaises ==
    (pf_phase = "returned" /\ ~PlanMatches(pf_pipe)) =>
        (pf_raised = "DimensionMismatchError" /\ pf_feat_imp = <<>>)

\* The day number of the cell at row r, column c of arr, NaN read as the
\* sentinel 2010-01-01.
DayOf(arr, r, c) ==
    to_datetime(IF arr[r][c] = NaN THEN DateFillValue ELSE arr[r][c][1])

\* out is, for every column of arr on its own, the days from each row's date
\* to the latest date of that column in arr.
IsRecencyDelta(arr, out) ==
    /\ DOMAIN out = DOMAIN arr
    /\ \A r \in DOMAIN arr, c \in DateColumns :
          /\ out[r][c] >= 0
          /\ \E r2 \in DOMAIN arr : out[r][c] = DayOf(arr, r2, c) - DayOf(arr, r, c)
          /\ (\A r2 \in DOMAIN arr : DayOf(arr, r2, c) <= DayOf(arr, r, c))
                => out[r][c] = 0

\* C4: every call of the date pipeline returns, per column, the days between
\* each row's date and that column's maximum among the rows of that call,
\* whatever the other column holds and whatever the earlier call was given.
C4_RecencyDelta ==
    /\ dd_phase = "later" => IsRecencyDelta(dd_prev, dd_out)
    /\ dd_phase = "returned" => IsRecencyDelta(dd_in, dd_out)

\* The later call returned for an array whose two columns have different
\* maxima, with a missing date, a row behind its column's maximum, and an
\* earlier call that had seen a later date.
C4_Witness ==
    /\ dd_phase = "returned"
    /\ Len(dd_in) = MaxDateRows
    /\ \E r \in DOMAIN dd_in : dd_in[r]["last_review"] = NaN
    /\ \E r \in DOMAIN dd_in : dd_out[r]["last_review"] > 0
    /\ \E r, r2 \in DOMAIN dd_in :
          /\ dd_out[r]["last_review"] = 0 /\ dd_out[r2]["first_review"] = 0
          /\ DayOf(dd_in, r, "last_review") # DayOf(dd_in, r2, "first_review")
    /\ \E c \in DateColumns : \A r \in DOMAIN dd_in :
          DayOf(dd_prev, 1, c) > DayOf(dd_in, r, c)

\* Some validation row holds a room_type or a neighbourhood_group that no
\* training row holds.
UnseenCategoryInVal ==
    \E v \in 1..Len(X_val) :
        \/ \A r \in 1..Len(X_train) : X_train[r].room_type # X_val[v].room_type
        \/ /\ X_val[v].neighbourhood_group # NaN
           /\ \A r \in 1..Len(X_train) :
                 X_train[r].neighbourhood_group # X_val[v].neighbourhood_group

\* C5: a category that occurs only in the validation rows does not make
\* score or predict raise.
C5_UnseenCategoryDoesNotRaise ==
    (sk_pipe.fitted /\ UnseenCategoryInVal) =>
        ~(pc = "failed" /\ error = "ValueError")

\* The positions of go() at which sk_pipe.fit has returned.
AfterFit ==
    {"score", "predict", "save", "log_artifact", "plot", "summary",
     "log_figure", "done"}

\* C6: the pipeline is fitted once, on X_train, before any matrix is handed
\* to the forest for scoring or prediction; the fitted state is what fitting
\* X_train gives, and no later step changes it.
C6_FitOnceOnTrainOnly ==
    /\ [](/\ pc \in AfterFit =>
                /\ fit_log = <<X_train>>
                /\ sk_pipe.fitted
                /\ sk_pipe.preprocessor
                      \in FitPreprocessor(X_train, args.max_tfidf_features)
          /\ ~sk_pipe.fitted => (fit_log = <<>> /\ Xt = <<>>)
          /\ Len(fit_log) <= 1)
    /\ [][sk_pipe.fitted => (sk_pipe' = sk_pipe /\ fit_log' = fit_log)]_vars

\* score and predict have run on a validation fold that, fitted, would have
\* given another state than the training fold gave.
C6_Witness ==
    /\ pc = "save"
    /\ Len(Xt) = 3
    /\ ~FitRaises(X_val, args.max_tfidf_features)
    /\ sk_pipe.preprocessor \notin FitPreprocessor(X_val, args.max_tfidf_features)

\* The run was ended by the construction of the estimator.
EndedAtConstruction == pc = "failed" /\ X_train # <<>> /\ ~sk_pipe.built

UnrecognizedKey == ~(DOMAIN args.rf_config \subseteq RecognizedParams)

C8_NoneSplitsWithoutStratification ==
    args.stratify_by = "none" => ~(pc = "failed" /\ error = "KeyError")

\* C9: a run that fails has handed nothing to W&B: no model artifact, no
\* metrics, no figure.
C9_AllOrNothing ==
    pc = "failed" =>
        (wandb.artifacts = {} /\ wandb.summary = {} /\ wandb.log = {})

\* The source columns of the cells of a matrix row, in order.
Layout(row) == [j \in 1..Len(row) |-> row[j].col]

Repeat(x, n) == [j \in 1..n |-> x]

\* The number of distinct neighbourhood_group values the rows hold.
DistinctGroups(rows) ==
    Cardinality({rows[r].neighbourhood_group : r \in 1..Len(rows)} \ {NaN})

\* C10: every matrix the preprocessor produced, at fit and at every later
\* transform, has 1 + k + 7 + 1 + t columns in the order ordinal, one-hot,
\* zero-imputed numerics, date, text, with k the distinct neighbourhood_group
\* values of the training fold and t the fitted vocabulary size, at most
\* max_tfidf_features; no other input column gives an output column; the
\* forest and its raw importance vector have that width.
C10_MatrixLayout ==
    LET k == Len(sk_pipe.preprocessor.onehot_categories)
        t == Len(sk_pipe.preprocessor.vocabulary)
    IN  sk_pipe.fitted =>
          /\ k = DistinctGroups(X_train)
          /\ t >= 1 /\ t <= args.max_tfidf_features
          /\ sk_pipe.n_features_in_ = 1 + k + 7 + 1 + t
          /\ \A m \in 1..Len(Xt) : \A r \in 1..Len(Xt[m]) :
                Layout(Xt[m][r]) =
                    <<"room_type">> \o Repeat("neighbourhood_group", k)
                        \o zero_imputed \o <<"last_review">> \o Repeat("name", t)
          /\ feature_importances_ # <<>> =>
                Len(feature_importances_) = 1 + k + 7 + 1 + t

\* fit, score and predict have each produced a matrix, with several one-hot
\* and text columns, and the raw importances have been read.
C10_Witness ==
    /\ pc = "done"
    /\ Len(Xt) = 3
    /\ Len(sk_pipe.preprocessor.onehot_categories) > 1
    /\ Len(sk_pipe.preprocessor.vocabulary) > 1
    /\ Len(X_val) > 1
    /\ feature_importances_ # <<>>

====
